---- MODULE Spec2Model ----
(***************************************************************************)
(* Session and token lifecycle of server/replitAuth.ts: the demo login,    *)
(* the federated (OpenID Connect) login, the memoized provider discovery,  *)
(* the unified authentication check with its refresh-on-demand, logout and *)
(* the current-user query, over the external session store.                *)
(*                                                                         *)
(* A handler is cut into steps at its awaits; the synchronous code between *)
(* two awaits is one action (an await whose continuation reads and writes  *)
(* nothing but the request's own state is not a cut: the continuation      *)
(* belongs to the step before).  A request that needs more than one step   *)
(* occupies a slot of req; a handler that answers in its first step needs  *)
(* none.  resp is the outcome of the last step (a response or the call of  *)
(* next), NoResp after a step that answered nothing.  What follows next()  *)
(* in the protected route changes nothing here but the end of its          *)
(* response, where express-session saves a modified session: that save is  *)
(* part of the step that calls next().                                     *)
(***************************************************************************)
EXTENDS Integers, FiniteSets, TLC

\* ---------------------------------------------------------------- bounds
MaxReq == 2      \* requests in flight at once, where requests overlap
MaxSid == 3      \* session ids in use at once
MaxTok == 2      \* distinct token responses of the provider
MaxTick == 2     \* seconds that pass one by one within a freshness window
MaxEpoch == 1    \* whole freshness windows that pass

\* ------------------------------------------------------------- constants
maxAge == 3600 * 1000      \* memoize option maxAge, in ms
Undef == -1                \* JavaScript undefined, for a number
NoTok == 0                 \* JavaScript undefined, for a token string
NoSid == 0                 \* no session cookie
NoUser == "none"           \* no demo payload in the session
Undefined == "undefined"   \* a missing body field
Users == {"alice", "bob"}  \* the user records the Credential Validator knows
Emails == {Undefined, "", "alice@x", "bob@x", "eve@x"}
Passwords == {Undefined, "", "pw"}
DomainList == <<"a.app", "b.dev", "a.app">>   \* REPLIT_DOMAINS, split at ","
Domains == {DomainList[i] : i \in DOMAIN DomainList}
Hostnames == Domains \cup {"other.io"}  \* req.hostname

Reqs == 1..MaxReq
Sids == 1..MaxSid
TokIds == 1..MaxTok

\* ------------------------------------------------------------ data model
NoClaims == [present |-> FALSE, jti |-> NoTok, exp |-> Undef]
NoPrincipal ==
  [present |-> FALSE, claims |-> NoClaims, access_token |-> NoTok,
   refresh_token |-> NoTok, expires_at |-> Undef]
\* const user = {}
EmptyObject == [NoPrincipal EXCEPT !.present = TRUE]
NoSession == [exists |-> FALSE, user |-> NoUser, passport |-> NoPrincipal]
NewSession == [NoSession EXCEPT !.exists = TRUE]
NoTokens == [claims |-> NoClaims, access_token |-> NoTok, refresh_token |-> NoTok]

\* JavaScript truthiness of a number that may be undefined
Truthy(n) == n # Undef /\ n # 0

\* tokens.claims()?.exp
ClaimsExp(claims) == IF claims.present THEN claims.exp ELSE Undef

updateUserSession_keepExpiry(user, tokens) ==
  [user EXCEPT !.claims = tokens.claims,
               !.access_token = tokens.access_token,
               !.refresh_token = tokens.refresh_token,
               !.expires_at = IF user.expires_at # Undef THEN user.expires_at
                              ELSE ClaimsExp(tokens.claims)]

updateUserSession_keepRefresh(user, tokens) ==
  [user EXCEPT !.claims = tokens.claims,
               !.access_token = tokens.access_token,
               !.refresh_token = IF user.refresh_token # NoTok
                                  THEN user.refresh_token
                                  ELSE tokens.refresh_token,
               !.expires_at = ClaimsExp(tokens.claims)]

updateUserSession(user, tokens) ==
  LET u1 == [user EXCEPT !.claims = tokens.claims]
      u2 == [u1 EXCEPT !.access_token = tokens.access_token]
      u3 == [u2 EXCEPT !.refresh_token = tokens.refresh_token]
  IN  [u3 EXCEPT !.expires_at = ClaimsExp(u3.claims)]

\* the token responses the provider can give: with or without id-token
\* claims, exp claim and refresh token; an exp is the first second or the
\* last one the clock reaches
ExpChoices == {Undef, 1, (MaxEpoch * maxAge) \div 1000 + MaxTick}
AnyResponses ==
  {[claims |-> NoClaims, access_token |-> t,
    refresh_token |-> IF rt THEN t ELSE NoTok] :
     t \in TokIds, rt \in BOOLEAN} \cup
  {[claims |-> [present |-> TRUE, jti |-> t, exp |-> e],
    access_token |-> t, refresh_token |-> IF rt THEN t ELSE NoTok] :
     t \in TokIds, rt \in BOOLEAN, e \in ExpChoices}
\* those of a provider that always sends claims with an exp and a refresh token
FullResponses ==
  {r \in AnyResponses :
     r.claims.present /\ r.claims.exp # Undef /\ r.refresh_token # NoTok}

\* storage.validateCredentials(email, password), when it does not throw
ValidateCredentials(email, password) ==
  IF email = "alice@x" /\ password = "pw" THEN "alice"
  ELSE IF email = "bob@x" /\ password = "pw" THEN "bob"
  ELSE NoUser

\* !x of a body field
Falsy(s) == s = Undefined \/ s = ""

\* `replitauth:${domain}`
StrategyName_fixed(domain) == <<"replitauth", "">>

StrategyName(domain) == <<"replitauth", domain>>

\* `https://${domain}/api/callback`
CallbackURL(domain) == <<"https://", domain, "/api/callback">>

\* new Strategy({ name, config, scope, callbackURL }, verify)
NewStrategy(domain) ==
  [name |-> StrategyName(domain), callbackURL |-> CallbackURL(domain)]

\* passport.use(strategy): passport keeps one strategy under a name
Use(strats, strategy) ==
  {s \in strats : s.name # strategy.name} \cup {strategy}

\* the loop over the domains, up to the n-th
RECURSIVE RegisterAll(_)
RegisterAll(n) ==
  IF n = 0 THEN {}
  ELSE Use(RegisterAll(n - 1), NewStrategy(DomainList[n]))

IdleReq ==
  [kind |-> "none", pc |-> "idle", sid |-> NoSid, sess |-> NoSession,
   email |-> Undefined, password |-> Undefined, cfg |-> "none", nRef |-> 0]

NoResp ==
  [kind |-> "none", status |-> "none", location |-> "", user |-> NoUser,
   principal |-> NoPrincipal, tokens |-> NoTokens, nRef |-> 0,
   email |-> Undefined, password |-> Undefined]

VARIABLES
  isReplitEnvironment,  \* line 12, fixed at process start
  phase,                \* "start" before setupAuth has run, "up" after
  strategies,           \* the strategies passport knows
  cache,                \* the memoized result of getOidcConfig
  clock,                \* Date.now(), in ms
  store,                \* the session store: session id -> session
  cookie,               \* the session id the client sends
  req,                  \* the requests in flight
  resp                  \* the outcome of the last step

vars == <<isReplitEnvironment, phase, strategies, cache, clock, store, cookie, req, resp>>

\* Math.floor(Date.now() / 1000)
Now == clock \div 1000

\* the state at process start, the session store still empty
Init ==
  /\ isReplitEnvironment \in BOOLEAN
  /\ phase = "start"
  /\ strategies = {}
  /\ cache = [state |-> "empty", at |-> 0]
  /\ clock = 1000
  /\ store = [s \in Sids |-> NoSession]
  /\ cookie = NoSid
  /\ req = [r \in Reqs |-> IdleReq]
  /\ resp = NoResp

\* ------------------------------------------------- memoized getOidcConfig
\* the cached promise is still served: memoize keeps it for maxAge ms
CacheHit_never == FALSE

CacheHit == cache.state # "empty" /\ clock - cache.at < maxAge

\* the promise a call of getOidcConfig() returns, d being what the provider's
\* discovery answers if it is asked
getOidcConfig(d) ==
  IF CacheHit THEN cache.state
  ELSE IF ~isReplitEnvironment THEN "rejected"
  ELSE IF d = "ok" THEN "resolved" ELSE "rejected"

CacheAfter(d) ==
  IF CacheHit THEN cache ELSE [state |-> getOidcConfig(d), at |-> clock]

\* ------------------------------------------------------- session store
InFlight(rq, s) == \E r \in Reqs : rq[r].pc # "idle" /\ rq[r].sid = s

\* the store keeps what the cookie or a request in flight names; a session no
\* one names is never read again and lapses with its ttl
Prune(st, ck, rq) ==
  [s \in Sids |-> IF s = ck \/ InFlight(rq, s) THEN st[s] ELSE NoSession]

\* express-session at the start of a request: the stored session of the
\* cookie, or a new one under a new id
HasSession == cookie # NoSid /\ store[cookie].exists
FreeSids == {s \in Sids : ~store[s].exists /\ ~InFlight(req, s)}
FreshSid == CHOOSE s \in FreeSids : \A t \in FreeSids : s <= t
CanLoad == HasSession \/ FreeSids # {}
LoadSid == IF HasSession THEN cookie ELSE FreshSid
LoadSess == IF HasSession THEN store[cookie] ELSE NewSession

\* express-session at the end of a response: a modified session is written
\* under the request's id and the cookie set to it (resave: false, a cookie
\* with maxAge); an unmodified one is only touched
SavedStore(st, sid, sess, modified) ==
  IF modified THEN [st EXCEPT ![sid] = sess] ELSE st
SavedCookie(ck, sid, modified) == IF modified THEN sid ELSE ck

\* ------------------------------------------------------------- setupAuth
setupAuth ==
  /\ phase = "start"
  /\ \E d \in {"ok", "fail"} :
       /\ cache' = IF isReplitEnvironment THEN CacheAfter(d) ELSE cache
       /\ strategies' =
            IF isReplitEnvironment /\ getOidcConfig(d) = "resolved"
            THEN RegisterAll(Cardinality(DOMAIN DomainList))
            ELSE {}
  /\ phase' = "up"
  /\ resp' = NoResp
  /\ UNCHANGED <<isReplitEnvironment, clock, store, cookie, req>>

\* the process ends and starts again; the session store is external and stays
Restart ==
  /\ phase = "up"
  /\ phase' = "start"
  /\ isReplitEnvironment' \in BOOLEAN
  /\ strategies' = {}
  /\ cache' = [state |-> "empty", at |-> 0]
  /\ req' = [r \in Reqs |-> IdleReq]
  /\ store' = Prune(store, cookie, req')
  /\ resp' = NoResp
  /\ UNCHANGED <<clock, cookie>>

\* time passes: d ms, a second or the whole freshness window of the memoized
\* discovery
Tick(d) ==
  /\ phase = "up"
  /\ d = 1000 => (clock % maxAge) + d <= MaxTick * 1000
  /\ d = maxAge => (clock \div maxAge) + 1 <= MaxEpoch
  /\ clock' = clock + d
  /\ resp' = NoResp
  /\ UNCHANGED <<isReplitEnvironment, phase, strategies, cache, store, cookie, req>>

\* ------------------------------------------------------------- responses
Answer(kind, status) == [NoResp EXCEPT !.kind = kind, !.status = status]

\* what of the request the first step of a handler keeps in its slot
Started(kind, pc) ==
  [IdleReq EXCEPT !.kind = kind, !.pc = pc, !.sid = LoadSid, !.sess = LoadSess]

\* a new request takes the first slot that is free
Idle(r) == req[r].pc = "idle" /\ \A q \in Reqs : req[q].pc = "idle" => r <= q

\* ---------------------------------------------------- GET /api/auth/user
\* what the handler answers on session sess: the status, the demo payload
\* and the federated principal of the body
CurrentUser_federatedFirst(sess) ==
  IF sess.passport.present
  THEN [status |-> "200", user |-> NoUser, principal |-> sess.passport]
  ELSE IF sess.user # NoUser
  THEN [status |-> "200", user |-> sess.user, principal |-> NoPrincipal]
  ELSE [status |-> "401", user |-> NoUser, principal |-> NoPrincipal]

CurrentUser(sess) ==
  IF sess.user # NoUser
  THEN [status |-> "200", user |-> sess.user, principal |-> NoPrincipal]
  ELSE IF sess.passport.present
  THEN [status |-> "200", user |-> NoUser, principal |-> sess.passport]
  ELSE [status |-> "401", user |-> NoUser, principal |-> NoPrincipal]

GetAuthUser ==
  /\ phase = "up"
  /\ LET a == CurrentUser(LoadSess)
     IN  resp' = [Answer("authUser", a.status) EXCEPT
                    !.user = a.user, !.principal = a.principal]
  /\ UNCHANGED <<isReplitEnvironment, phase, strategies, cache, clock, store, cookie, req>>

\* ------------------------------------------------------- POST /api/logout
\* req.session.destroy: the store drops the session, or fails
PostLogout ==
  /\ phase = "up"
  /\ \E ok \in BOOLEAN :
       /\ store' = IF ok /\ HasSession
                   THEN [store EXCEPT ![cookie] = NoSession] ELSE store
       /\ resp' = Answer("postLogout", IF ok THEN "200" ELSE "500")
  /\ UNCHANGED <<isReplitEnvironment, phase, strategies, cache, clock, cookie, req>>

\* -------------------------------------------------------- POST /api/login
\* !email || !password
MissingField_both(email, password) == Falsy(email) /\ Falsy(password)

MissingField(email, password) == Falsy(email) \/ Falsy(password)

\* up to the await of storage.validateCredentials
PostLoginStart(r, emails) ==
  /\ phase = "up" /\ Idle(r) /\ CanLoad
  /\ \E email \in emails, password \in Passwords :
       IF MissingField(email, password)
       THEN /\ resp' = [Answer("postLogin", "400") EXCEPT
                              !.email = email, !.password = password]
            /\ req' = req
       ELSE /\ req' = [req EXCEPT ![r] =
                         [Started("postLogin", "awaitValidate") EXCEPT
                            !.email = email, !.password = password]]
            /\ resp' = NoResp
  /\ UNCHANGED <<isReplitEnvironment, phase, strategies, cache, clock, store, cookie>>

\* the session after (req.session as any).user = user
StoreUser(sess, user) == [sess EXCEPT !.user = user]

PostLoginDone_clearOnReject(r) ==
  /\ req[r].kind = "postLogin" /\ req[r].pc = "awaitValidate"
  /\ \E thrown \in BOOLEAN :
       LET q == req[r]
           user == ValidateCredentials(q.email, q.password)
           sess == StoreUser(q.sess, user)
           rq == [req EXCEPT ![r] = IdleReq]
       IN  /\ req' = rq
           /\ resp' = [Answer("postLogin", IF thrown THEN "500"
                                           ELSE IF user = NoUser THEN "401"
                                           ELSE "200") EXCEPT
                         !.user = IF thrown THEN NoUser ELSE user,
                         !.email = q.email, !.password = q.password]
           /\ cookie' = SavedCookie(cookie, q.sid, ~thrown /\ sess # q.sess)
           /\ store' = Prune(SavedStore(store, q.sid, sess,
                                        ~thrown /\ sess # q.sess),
                             cookie', rq)
  /\ UNCHANGED <<isReplitEnvironment, phase, strategies, cache, clock>>

\* from the validator's answer to the response
PostLoginDone(r) ==
  /\ req[r].kind = "postLogin" /\ req[r].pc = "awaitValidate"
  /\ \E thrown \in BOOLEAN :
       LET q == req[r]
           user == ValidateCredentials(q.email, q.password)
           sess == StoreUser(q.sess, user)
           rq == [req EXCEPT ![r] = IdleReq]
       IN  /\ req' = rq
           /\ IF thrown
              THEN /\ resp' = [Answer("postLogin", "500") EXCEPT
                                 !.email = q.email, !.password = q.password]
                   /\ store' = Prune(store, cookie, rq)
                   /\ cookie' = cookie
              ELSE IF user = NoUser
              THEN /\ resp' = [Answer("postLogin", "401") EXCEPT
                                 !.email = q.email, !.password = q.password]
                   /\ store' = Prune(store, cookie, rq)
                   /\ cookie' = cookie
              ELSE /\ resp' = [Answer("postLogin", "200") EXCEPT
                                 !.user = user, !.email = q.email,
                                 !.password = q.password]
                   /\ cookie' = SavedCookie(cookie, q.sid, sess # q.sess)
                   /\ store' = Prune(SavedStore(store, q.sid, sess, sess # q.sess),
                                     cookie', rq)
  /\ UNCHANGED <<isReplitEnvironment, phase, strategies, cache, clock>>

\* -------------------------------------------------------- isAuthenticated
\* now <= user.expires_at
Unexpired_strict(now, expires_at) == now < expires_at

Unexpired_always(now, expires_at) == TRUE

Unexpired(now, expires_at) == now <= expires_at

\* the synchronous part of the check, up to the await of getOidcConfig:
\* which of its returns it takes on session sess
isAuthenticatedSync_environmentFirst(sess) ==
  IF ~isReplitEnvironment THEN "disabled"
  ELSE IF sess.user # NoUser THEN "demo"
  ELSE IF ~sess.passport.present \/ ~Truthy(sess.passport.expires_at)
  THEN "unauthenticated"
  ELSE IF Unexpired(Now, sess.passport.expires_at) THEN "fresh"
  ELSE IF sess.passport.refresh_token = NoTok THEN "noRefreshToken"
  ELSE "refresh"

isAuthenticatedSync_anyEnvironment(sess) ==
  IF sess.user # NoUser THEN "demo"
  ELSE IF ~sess.passport.present \/ ~Truthy(sess.passport.expires_at)
  THEN "unauthenticated"
  ELSE IF Unexpired(Now, sess.passport.expires_at) THEN "fresh"
  ELSE IF sess.passport.refresh_token = NoTok THEN "noRefreshToken"
  ELSE "refresh"

isAuthenticatedSync_refreshWithoutToken(sess) ==
  IF sess.user # NoUser THEN "demo"
  ELSE IF ~isReplitEnvironment THEN "disabled"
  ELSE IF ~sess.passport.present \/ ~Truthy(sess.passport.expires_at)
  THEN "unauthenticated"
  ELSE IF Unexpired(Now, sess.passport.expires_at) THEN "fresh"
  ELSE "refresh"

isAuthenticatedSync(sess) ==
  IF sess.user # NoUser THEN "demo"
  ELSE IF ~isReplitEnvironment THEN "disabled"
  ELSE IF ~sess.passport.present \/ ~Truthy(sess.passport.expires_at)
  THEN "unauthenticated"
  ELSE IF Unexpired(Now, sess.passport.expires_at) THEN "fresh"
  ELSE IF sess.passport.refresh_token = NoTok THEN "noRefreshToken"
  ELSE "refresh"

\* the check from its start to a return, or to the call of
\* client.refreshTokenGrant with the configuration getOidcConfig has given
isAuthenticated(r) ==
  /\ phase = "up" /\ Idle(r)
  /\ \E d \in {"ok", "fail"} :
       LET sess == LoadSess
           way == isAuthenticatedSync(sess)
       IN  IF way = "demo"
           THEN /\ resp' = [Answer("auth", "next") EXCEPT !.user = sess.user]
                /\ UNCHANGED <<req, cache>>
           ELSE IF way = "fresh"
           THEN /\ resp' = [Answer("auth", "next") EXCEPT
                              !.principal = sess.passport]
                /\ UNCHANGED <<req, cache>>
           ELSE IF way = "refresh"
           THEN /\ cache' = CacheAfter(d)
                /\ IF getOidcConfig(d) = "rejected"
                   THEN /\ resp' = Answer("auth", "401")
                        /\ req' = req
                   ELSE /\ req' = [req EXCEPT ![r] =
                                     [Started("auth", "awaitRefresh") EXCEPT
                                        !.nRef = 1]]
                        /\ resp' = NoResp
           ELSE /\ resp' = Answer("auth", "401")
                /\ UNCHANGED <<req, cache>>
  /\ UNCHANGED <<isReplitEnvironment, phase, strategies, clock, store, cookie>>

\* the refresh settles: the catch, or updateUserSession and next(), after
\* which the response of the protected route ends and express-session saves
\* the session the refresh has modified
isAuthenticatedRefresh_retry(r, responses) ==
  /\ req[r].kind = "auth" /\ req[r].pc = "awaitRefresh"
  /\ \E ok \in BOOLEAN, tokens \in responses :
       LET q == req[r]
           user == updateUserSession(q.sess.passport, tokens)
           sess == [q.sess EXCEPT !.passport = user]
           rq == [req EXCEPT ![r] = IdleReq]
       IN  IF ok
           THEN /\ req' = rq
                /\ cookie' = SavedCookie(cookie, q.sid, sess # q.sess)
                /\ store' = Prune(SavedStore(store, q.sid, sess, sess # q.sess),
                                  cookie', rq)
                /\ resp' = [Answer("auth", "next") EXCEPT
                              !.principal = user, !.tokens = tokens,
                              !.nRef = q.nRef]
           ELSE IF q.nRef < 2
           THEN /\ req' = [req EXCEPT ![r].nRef = q.nRef + 1]
                /\ UNCHANGED <<store, cookie>>
                /\ resp' = NoResp
           ELSE /\ req' = rq
                /\ cookie' = cookie
                /\ store' = Prune(store, cookie, rq)
                /\ resp' = [Answer("auth", "401") EXCEPT !.nRef = q.nRef]
  /\ UNCHANGED <<isReplitEnvironment, phase, strategies, cache, clock>>

isAuthenticatedRefresh_uncaught(r, responses) ==
  /\ req[r].kind = "auth" /\ req[r].pc = "awaitRefresh"
  /\ \E ok \in BOOLEAN, tokens \in responses :
       LET q == req[r]
           user == updateUserSession(q.sess.passport, tokens)
           sess == [q.sess EXCEPT !.passport = user]
           rq == [req EXCEPT ![r] = IdleReq]
       IN  /\ req' = rq
           /\ IF ok
              THEN /\ cookie' = SavedCookie(cookie, q.sid, sess # q.sess)
                   /\ store' = Prune(SavedStore(store, q.sid, sess, sess # q.sess),
                                     cookie', rq)
                   /\ resp' = [Answer("auth", "next") EXCEPT
                                 !.principal = user, !.tokens = tokens,
                                 !.nRef = q.nRef]
              ELSE /\ cookie' = cookie
                   /\ store' = Prune(store, cookie, rq)
                   /\ resp' = [Answer("auth", "none") EXCEPT !.nRef = q.nRef]
  /\ UNCHANGED <<isReplitEnvironment, phase, strategies, cache, clock>>

isAuthenticatedRefresh_dropOnFailure(r, responses) ==
  /\ req[r].kind = "auth" /\ req[r].pc = "awaitRefresh"
  /\ \E ok \in BOOLEAN, tokens \in responses :
       LET q == req[r]
           user == IF ok THEN updateUserSession(q.sess.passport, tokens)
                   ELSE [q.sess.passport EXCEPT !.refresh_token = NoTok]
           sess == [q.sess EXCEPT !.passport = user]
           rq == [req EXCEPT ![r] = IdleReq]
       IN  /\ req' = rq
           /\ cookie' = SavedCookie(cookie, q.sid, sess # q.sess)
           /\ store' = Prune(SavedStore(store, q.sid, sess, sess # q.sess),
                             cookie', rq)
           /\ resp' = IF ok
                      THEN [Answer("auth", "next") EXCEPT
                              !.principal = user, !.tokens = tokens,
                              !.nRef = q.nRef]
                      ELSE [Answer("auth", "401") EXCEPT !.nRef = q.nRef]
  /\ UNCHANGED <<isReplitEnvironment, phase, strategies, cache, clock>>

isAuthenticatedRefresh(r, responses) ==
  /\ req[r].kind = "auth" /\ req[r].pc = "awaitRefresh"
  /\ \E ok \in BOOLEAN, tokens \in responses :
       LET q == req[r]
           user == updateUserSession(q.sess.passport, tokens)
           sess == [q.sess EXCEPT !.passport = user]
           rq == [req EXCEPT ![r] = IdleReq]
       IN  /\ req' = rq
           /\ IF ok
              THEN /\ cookie' = SavedCookie(cookie, q.sid, sess # q.sess)
                   /\ store' = Prune(SavedStore(store, q.sid, sess, sess # q.sess),
                                     cookie', rq)
                   /\ resp' = [Answer("auth", "next") EXCEPT
                                 !.principal = user, !.tokens = tokens,
                                 !.nRef = q.nRef]
              ELSE /\ cookie' = cookie
                   /\ store' = Prune(store, cookie, rq)
                   /\ resp' = [Answer("auth", "401") EXCEPT !.nRef = q.nRef]
  /\ UNCHANGED <<isReplitEnvironment, phase, strategies, cache, clock>>

\* ------------------------------------------- GET /api/login, /api/callback
\* passport.authenticate(`replitauth:${req.hostname}`): the strategy of that
\* name, if passport.use has registered one
Registered(host) == \E s \in strategies : s.name = StrategyName(host)

\* the redirect to the provider; an unknown strategy is an error (500)
GetLogin ==
  /\ phase = "up" /\ isReplitEnvironment
  /\ \E host \in Hostnames :
       resp' = IF Registered(host)
               THEN [Answer("getLogin", "302") EXCEPT !.location = "provider"]
               ELSE Answer("getLogin", "500")
  /\ UNCHANGED <<isReplitEnvironment, phase, strategies, cache, clock, store, cookie, req>>

\* up to the await of the code exchange
GetCallbackStart(r) ==
  /\ phase = "up" /\ isReplitEnvironment /\ Idle(r) /\ CanLoad
  /\ \E host \in Hostnames :
       IF Registered(host)
       THEN /\ req' = [req EXCEPT ![r] =
                         [Started("getCallback", "awaitTokens") EXCEPT
                            !.sess = NoSession]]
            /\ resp' = NoResp
       ELSE /\ req' = req
            /\ resp' = Answer("getCallback", "500")
  /\ UNCHANGED <<isReplitEnvironment, phase, strategies, cache, clock, store, cookie>>

\* the principal the verify callback hands to passport
verify(tokens) == updateUserSession(EmptyObject, tokens)

\* the exchange settles: the failure redirect, or verify and req.login, which
\* moves the session to a new id holding only the principal
GetCallbackDone(r, responses) ==
  /\ req[r].kind = "getCallback" /\ req[r].pc = "awaitTokens"
  /\ \E ok \in BOOLEAN, tokens \in responses :
       LET q == req[r]
           rq == [req EXCEPT ![r] = IdleReq]
           user == verify(tokens)
           dropped == [store EXCEPT ![q.sid] = NoSession]
           free == {s \in Sids : ~dropped[s].exists /\ ~InFlight(rq, s)}
           sid == CHOOSE s \in free : \A u \in free : s <= u
           sess == [NewSession EXCEPT !.passport = user]
       IN  /\ req' = rq
           /\ IF ~ok
              THEN /\ resp' = [Answer("getCallback", "302") EXCEPT
                                 !.location = "/api/login"]
                   /\ store' = Prune(store, cookie, rq)
                   /\ cookie' = cookie
              ELSE IF ~tokens.claims.present
              THEN \* upsertUser(undefined) throws
                   /\ resp' = [Answer("getCallback", "500") EXCEPT
                                 !.tokens = tokens]
                   /\ store' = Prune(store, cookie, rq)
                   /\ cookie' = cookie
              ELSE /\ resp' = [Answer("getCallback", "302") EXCEPT
                                 !.location = "/", !.principal = user,
                                 !.tokens = tokens]
                   /\ cookie' = sid
                   /\ store' = Prune([dropped EXCEPT ![sid] = sess], sid, rq)
  /\ UNCHANGED <<isReplitEnvironment, phase, strategies, cache, clock>>

\* -------------------------------------------------------- GET /api/logout
\* up to the await of getOidcConfig
GetLogoutStart(r) ==
  /\ phase = "up" /\ isReplitEnvironment /\ Idle(r) /\ CanLoad
  /\ \E d \in {"ok", "fail"} :
       /\ req' = [req EXCEPT ![r] =
                    [Started("getLogout", "awaitConfig") EXCEPT
                       !.sess = NoSession, !.cfg = getOidcConfig(d)]]
       /\ cache' = CacheAfter(d)
  /\ resp' = NoResp
  /\ UNCHANGED <<isReplitEnvironment, phase, strategies, clock, store, cookie>>

\* with the configuration: req.logout, which drops the principal, saves and
\* regenerates the session, then the redirect to the provider; without:
\* req.session.destroy and the redirect to "/".  The store may fail.
GetLogoutDone(r) ==
  /\ req[r].kind = "getLogout" /\ req[r].pc = "awaitConfig"
  /\ \E ok \in BOOLEAN :
       LET q == req[r]
           rq == [req EXCEPT ![r] = IdleReq]
           st == IF ok THEN [store EXCEPT ![q.sid] = NoSession] ELSE store
       IN  /\ req' = rq
           /\ store' = Prune(st, cookie, rq)
           /\ resp' =
                IF q.cfg = "resolved"
                THEN [Answer("getLogout", "302") EXCEPT
                        !.location = "end-session"]
                ELSE IF ok
                THEN [Answer("getLogout", "302") EXCEPT !.location = "/"]
                ELSE Answer("getLogout", "500")
  /\ UNCHANGED <<isReplitEnvironment, phase, strategies, cache, clock, cookie>>

\* ------------------------------------------------------- the specification
\* at most one request waits at an await, the requests that answer in one
\* step overlap it; every input, restarts, and hours that pass
Next ==
  \/ setupAuth
  \/ Restart
  \/ Tick(1000)
  \/ Tick(maxAge)
  \/ GetAuthUser
  \/ PostLogout
  \/ GetLogin
  \/ PostLoginStart(1, Emails)
  \/ PostLoginDone(1)
  \/ isAuthenticated(1)
  \/ isAuthenticatedRefresh(1, AnyResponses)
  \/ GetCallbackStart(1)
  \/ GetCallbackDone(1, AnyResponses)
  \/ GetLogoutStart(1)
  \/ GetLogoutDone(1)

Spec == Init /\ [][Next]_vars

\* requests that overlap, within one run of the process and one freshness
\* window, against a provider whose token responses are complete
NextRace ==
  \/ setupAuth
  \/ Tick(1000)
  \/ GetAuthUser
  \/ PostLogout
  \/ \E r \in Reqs : PostLoginStart(r, {"alice@x", "eve@x"})
  \/ \E r \in Reqs : PostLoginDone(r)
  \/ \E r \in Reqs : isAuthenticated(r)
  \/ \E r \in Reqs : isAuthenticatedRefresh(r, FullResponses)
  \/ \E r \in Reqs : GetCallbackStart(r)
  \/ \E r \in Reqs : GetCallbackDone(r, FullResponses)
  \/ \E r \in Reqs : GetLogoutStart(r)
  \/ \E r \in Reqs : GetLogoutDone(r)

SpecRace == Init /\ [][NextRace]_vars

\* ------------------------------------------------------------- the claims
\* The session a handler that answers in its first step has seen is LoadSess
\* of the state it leaves: such a step writes neither the store nor the cookie.
\* An answer with nRef = 0 is one the authentication check gives in its first
\* step.
Seen == LoadSess

\* expires_at is strictly before the current time
Stale(p) == p.present /\ p.expires_at # Undef /\ p.expires_at < Now

\* the last step is one in which the provider has answered a refresh
Refreshed == resp.tokens # NoTokens

\* C1: neither the authentication check nor GET /api/auth/user treats a
\* principal whose expires_at is before the current time as authenticated,
\* unless a refresh has succeeded for it in that request
C1_StaleNeverAuthenticated ==
  (/\ resp.kind \in {"auth", "authUser"}
   /\ resp.status \in {"next", "200"}
   /\ resp.principal.present
   /\ ~Refreshed)
  => ~Stale(resp.principal)

\* C2: on a session with a demo payload the authentication check calls next
\* with that payload as the request's user, whatever the marker, the
\* principal and its expires_at are, and never asks for a refresh
C2_DemoBypassesExpiry ==
  /\ (resp.kind = "auth" /\ resp.nRef = 0 /\ Seen.user # NoUser)
       => /\ resp.status = "next"
          /\ resp.user = Seen.user
          /\ resp.principal = NoPrincipal
  /\ resp.kind = "auth" /\ resp.user # NoUser => resp.nRef = 0 /\ ~Refreshed
  /\ \A r \in Reqs : req[r].kind = "auth" => req[r].sess.user = NoUser

C2_Witness ==
  /\ resp.kind = "auth" /\ resp.status = "next" /\ resp.user = Seen.user
  /\ Seen.user # NoUser
  /\ Stale(Seen.passport)
  /\ ~isReplitEnvironment

\* C3: federated path enabled, no demo payload, a principal with
\* now <= expires_at: the check calls next with that principal, asks for no
\* refresh and no discovery, and leaves the session as it is
FreshPrincipal(sess) ==
  /\ isReplitEnvironment
  /\ sess.user = NoUser
  /\ sess.passport.present
  /\ Now <= sess.passport.expires_at

C3_FreshProceeds ==
  /\ [](resp.kind = "auth" /\ resp.nRef = 0 /\ FreshPrincipal(Seen)
          => /\ resp.status = "next"
             /\ resp.principal = Seen.passport
             /\ ~Refreshed)
  /\ [](\A r \in Reqs : req[r].kind = "auth" => Stale(req[r].sess.passport))
  /\ [][(FreshPrincipal(LoadSess) /\ \E r \in Reqs : isAuthenticated(r))
          => UNCHANGED <<store, cookie, cache, req>>]_vars

C3_Witness ==
  /\ resp.kind = "auth" /\ resp.status = "next"
  /\ FreshPrincipal(Seen)
  /\ Seen.passport.expires_at = Now
  /\ Seen.passport.refresh_token # NoTok
  /\ resp.principal = Seen.passport

\* slot r waits for the provider's answer to its refresh
AwaitsRefresh(r) == req[r].kind = "auth" /\ req[r].pc = "awaitRefresh"

\* C4: the check asks for a refresh only with the federated path enabled, on
\* a session without demo payload whose principal is stale and holds a
\* refresh token; when the refresh succeeds the principal of the request and
\* of the stored session is exactly the token response (claims, access_token,
\* refresh_token, and expires_at the exp claim) and the check calls next.
\* The stored session is gone only if a logout has destroyed it meanwhile.
C4_RefreshOverwrites ==
  /\ \A r \in Reqs : AwaitsRefresh(r) =>
       /\ isReplitEnvironment
       /\ req[r].sess.user = NoUser
       /\ Stale(req[r].sess.passport)
       /\ req[r].sess.passport.refresh_token # NoTok
  /\ (resp.kind = "auth" /\ Refreshed) =>
       /\ resp.status = "next"
       /\ resp.user = NoUser
       /\ resp.principal =
            [present |-> TRUE,
             claims |-> resp.tokens.claims,
             access_token |-> resp.tokens.access_token,
             refresh_token |-> resp.tokens.refresh_token,
             expires_at |-> IF resp.tokens.claims.present
                            THEN resp.tokens.claims.exp ELSE Undef]
       /\ HasSession =>
            /\ store[cookie].passport = resp.principal
            /\ store[cookie].user = NoUser

C4_Witness ==
  /\ resp.kind = "auth" /\ resp.status = "next" /\ Refreshed
  /\ HasSession
  /\ resp.tokens.claims.present
  /\ resp.tokens.refresh_token # NoTok
  /\ store[cookie].passport.expires_at = resp.tokens.claims.exp
  /\ Now < store[cookie].passport.expires_at

\* C5: a refresh that fails, or a configuration that is not to be had, ends
\* the check with 401 and without next; the check asks for the refresh at
\* most once in a request, and calls next after a refresh only if the
\* provider has answered it
C5_FailedRefreshRejected ==
  /\ [](\A r \in Reqs : req[r].nRef <= 1)
  /\ [](resp.kind = "auth" =>
          /\ resp.nRef <= 1
          /\ resp.status \in {"next", "401"}
          /\ (resp.status = "next" /\ resp.nRef = 1) => Refreshed
          /\ resp.status = "401" => ~Refreshed /\ resp.principal = NoPrincipal)
  /\ [][\A r \in Reqs :
          (AwaitsRefresh(r) /\ ~AwaitsRefresh(r)' /\ phase' = phase /\ ~Refreshed')
            => /\ req'[r] = IdleReq
               /\ resp'.kind = "auth" /\ resp'.status = "401" /\ resp'.nRef = 1]_vars
  /\ [][(isAuthenticatedSync(LoadSess) = "refresh"
           /\ resp'.kind = "auth" /\ resp'.nRef = 0)
            => /\ resp'.status = "401"
               /\ cache'.state = "rejected"
               /\ UNCHANGED <<store, cookie, req>>]_vars

C5_Witness ==
  /\ resp.kind = "auth" /\ resp.status = "401" /\ resp.nRef = 1
  /\ HasSession
  /\ Stale(store[cookie].passport)
  /\ store[cookie].passport.refresh_token # NoTok

\* C6: POST /api/login answers 400 exactly when email or password is
\* missing or empty; otherwise, unless the handler has thrown, 401 when the
\* validator returns no user and 200 when it returns one, and then the
\* session's demo payload is that user.  The session is gone afterwards only
\* if it held that user already and a logout has destroyed it meanwhile.
C6_PostLogin ==
  /\ [](resp.kind = "postLogin" =>
          LET missing == \/ resp.email \in {Undefined, ""}
                         \/ resp.password \in {Undefined, ""}
              user == ValidateCredentials(resp.email, resp.password)
          IN  /\ resp.status \in {"400", "401", "200", "500"}
              /\ resp.status = "400" <=> missing
              /\ (~missing /\ resp.status # "500") =>
                   resp.status = IF user = NoUser THEN "401" ELSE "200"
              /\ resp.status = "200" =>
                   /\ resp.user = user
                   /\ HasSession => store[cookie].user = user)
  /\ [][\A r \in Reqs :
          (/\ req[r].pc = "awaitValidate"
           /\ resp'.kind = "postLogin" /\ resp'.status = "200")
            => \/ /\ cookie' = req[r].sid
                  /\ store'[cookie'].exists
                  /\ store'[cookie'].user = resp'.user
                  /\ store'[cookie'].passport = req[r].sess.passport
               \/ /\ ~store[req[r].sid].exists
                  /\ req[r].sess.user = resp'.user]_vars

C6_Witness ==
  /\ resp.kind = "postLogin" /\ resp.status = "200"
  /\ resp.user = "bob"
  /\ store[cookie].user = "bob"
  /\ store[cookie].passport.present

\* the step is a login that succeeds
LoginSucceeds ==
  \/ resp'.kind = "postLogin" /\ resp'.status = "200"
  \/ resp'.kind = "getCallback" /\ resp'.status = "302" /\ resp'.location = "/"

\* C7: when POST /api/logout has answered 200, GET /api/auth/user on that
\* session would answer 401, and the next step, whatever request it belongs
\* to, leaves it so unless it is a login that succeeds
C7_LogoutThenUnauthorized ==
  /\ []((resp.kind = "postLogout" /\ resp.status = "200")
          => CurrentUser(LoadSess).status = "401")
  /\ [][(resp.kind = "postLogout" /\ resp.status = "200")
          => (CurrentUser(LoadSess)'.status = "401" \/ LoginSucceeds)]_vars

\* C8: GET /api/auth/user answers the demo payload whenever the session has
\* one, the principal only when it has none and the request is
\* authenticated, and 401 when it has neither; the authentication check
\* attaches the demo payload, never the principal, when the session has both
C8_DemoWins ==
  /\ resp.kind = "authUser" =>
       /\ Seen.user # NoUser =>
            /\ resp.status = "200"
            /\ resp.user = Seen.user /\ resp.principal = NoPrincipal
       /\ (Seen.user = NoUser /\ Seen.passport.present) =>
            /\ resp.status = "200"
            /\ resp.user = NoUser /\ resp.principal = Seen.passport
       /\ (Seen.user = NoUser /\ ~Seen.passport.present) =>
            /\ resp.status = "401"
            /\ resp.user = NoUser /\ resp.principal = NoPrincipal
  /\ (resp.kind = "auth" /\ resp.status = "next") =>
       /\ resp.user # NoUser \/ resp.principal.present
       /\ ~(resp.user # NoUser /\ resp.principal.present)
       /\ (resp.nRef = 0 /\ Seen.user # NoUser) => resp.user = Seen.user

C8_Witness ==
  /\ resp.kind = "authUser" /\ resp.status = "200"
  /\ Seen.user # NoUser /\ Seen.passport.present
  /\ resp.user = Seen.user

\* C9: without the marker the check calls next exactly on a session with a
\* demo payload and answers 401 on every other, a federated principal or
\* not; no discovery is made, no refresh is asked for, no strategy exists
C9_MarkerAbsent ==
  ~isReplitEnvironment =>
    /\ resp.kind = "auth" =>
         /\ resp.status \in {"next", "401"}
         /\ resp.status = "next" <=> Seen.user # NoUser
         /\ resp.principal = NoPrincipal
         /\ resp.nRef = 0 /\ ~Refreshed
    /\ cache.state = "empty"
    /\ strategies = {}
    /\ \A r \in Reqs : req[r].kind \notin {"auth", "getCallback", "getLogout"}

C9_Witness ==
  /\ ~isReplitEnvironment
  /\ resp.kind = "auth" /\ resp.status = "401"
  /\ Seen.passport.present
  /\ Now <= Seen.passport.expires_at

\* setup has ended with the marker present and no strategy registered:
\* discovery has failed
SetupFailed == isReplitEnvironment /\ phase = "up" /\ strategies = {}

\* C10: after a setup in which discovery has failed no federated login
\* starts or completes, and the authentication check accepts no request on
\* a federated principal
C10_FailedSetupDemoOnly ==
  SetupFailed =>
    /\ resp.kind \in {"getLogin", "getCallback"} => resp.status = "500"
    /\ \A r \in Reqs : req[r].kind # "getCallback"
    /\ ~(resp.kind = "auth" /\ resp.status = "next" /\ resp.principal.present)

\* the authentication check would let a request on session sess pass on its
\* federated principal, at once or after a refresh
PassesOnPrincipal(sess) == isAuthenticatedSync(sess) \in {"fresh", "refresh"}

\* C11: GET /api/logout answers a redirect (to the provider's end-session
\* URL with the configuration, to "/" without) or 500 on a store error, and
\* after a redirect the authentication check that follows on that session
\* does not pass on the former federated principal
C11_FederatedLogout ==
  resp.kind = "getLogout" =>
    /\ resp.status \in {"302", "500"}
    /\ resp.status = "302" => resp.location \in {"end-session", "/"}
    /\ resp.status = "302" => ~PassesOnPrincipal(Seen)

\* the token fields of principal p are those of one token response
FromOneResponse(p) ==
  \E tokens \in AnyResponses :
    /\ p.claims = tokens.claims
    /\ p.access_token = tokens.access_token
    /\ p.refresh_token = tokens.refresh_token
    /\ p.expires_at = IF tokens.claims.present THEN tokens.claims.exp ELSE Undef

\* C12: requests on one session refresh side by side, none waiting for
\* another; a refresh that has changed the principal writes it whatever the
\* store holds by then (the last writer wins), and the token fields of a
\* stored principal are always those of one single response
C12_LastWriterWins ==
  /\ [](\A s \in Sids : store[s].passport.present
                           => FromOneResponse(store[s].passport))
  /\ [][\A r \in Reqs :
          (/\ AwaitsRefresh(r) /\ ~AwaitsRefresh(r)'
           /\ resp'.kind = "auth" /\ Refreshed'
           /\ resp'.principal # req[r].sess.passport)
            => /\ store'[req[r].sid].passport = resp'.principal
               /\ cookie' = req[r].sid]_vars
  /\ [][\A r \in Reqs :
          (~AwaitsRefresh(r) /\ AwaitsRefresh(r)')
            => UNCHANGED <<store, cookie>>]_vars

\* one refresh has written its response while another request still waits
\* for its own with the principal it has read before
C12_Witness ==
  \E r \in Reqs :
    /\ AwaitsRefresh(r)
    /\ resp.kind = "auth" /\ Refreshed
    /\ store[req[r].sid].passport = resp.principal
    /\ store[req[r].sid].passport # req[r].sess.passport

\* federated path enabled, no demo payload, and no federated session, or a
\* principal without expires_at, or an expired one without refresh token
NothingToRefresh(sess) ==
  /\ isReplitEnvironment
  /\ sess.user = NoUser
  /\ \/ ~sess.passport.present
     \/ sess.passport.expires_at \in {Undef, 0}
     \/ Stale(sess.passport) /\ sess.passport.refresh_token = NoTok

\* C13: in each of these cases the check answers 401 in its first step,
\* asks for no discovery and no refresh, and leaves the session, the cookie
\* and the memoized discovery as they are
C13_RejectsWithoutRefresh ==
  /\ [](resp.kind = "auth" /\ resp.nRef = 0 /\ NothingToRefresh(Seen)
          => /\ resp.status = "401"
             /\ resp.principal = NoPrincipal /\ resp.user = NoUser
             /\ ~Refreshed)
  /\ [](\A r \in Reqs : req[r].kind = "auth"
                           => /\ req[r].sess.passport.refresh_token # NoTok
                              /\ req[r].sess.passport.expires_at \notin {Undef, 0})
  /\ [][(NothingToRefresh(LoadSess) /\ \E r \in Reqs : isAuthenticated(r))
          => UNCHANGED <<store, cookie, cache, req>>]_vars

C13_Witness ==
  /\ resp.kind = "auth" /\ resp.status = "401" /\ resp.nRef = 0
  /\ NothingToRefresh(Seen)
  /\ Stale(Seen.passport)
  /\ Seen.passport.refresh_token = NoTok

\* C14: a step of the authentication check either answers, with next or
\* with 401 and nothing else, and ends the invocation, or leaves the request
\* waiting for its refresh without an answer; a waiting request can end for
\* every outcome of the refresh, and it ends with an answer; the check can
\* run on every session
C14_ExactlyOneOutcome ==
  /\ [](resp.kind = "auth" => resp.status \in {"next", "401"})
  /\ [](\A r \in Reqs : AwaitsRefresh(r)
                           => ENABLED isAuthenticatedRefresh(r, AnyResponses))
  /\ []((phase = "up" /\ \E r \in Reqs : Idle(r))
          => \E r \in Reqs : ENABLED isAuthenticated(r))
  /\ [][resp'.kind = "auth"
          => \/ req' = req
             \/ \E r \in Reqs : /\ AwaitsRefresh(r)
                                  /\ req' = [req EXCEPT ![r] = IdleReq]]_vars
  /\ [][\A r \in Reqs :
          (AwaitsRefresh(r) /\ ~AwaitsRefresh(r)' /\ phase' = phase)
            => resp'.kind = "auth" /\ resp'.nRef = 1]_vars
  /\ [][\A r \in Reqs :
          (~AwaitsRefresh(r) /\ AwaitsRefresh(r)') => resp' = NoResp]_vars

\* next after a refresh whose response carries no id-token claims
C14_Witness ==
  /\ resp.kind = "auth" /\ resp.status = "next" /\ resp.nRef = 1
  /\ ~resp.tokens.claims.present
  /\ \A r \in Reqs : ~AwaitsRefresh(r)

\* the check has called next on a federated principal
ProceedsOnPrincipal ==
  resp.kind = "auth" /\ resp.status = "next" /\ resp.principal.present

\* C15, as stated: whenever the check proceeds on a federated principal,
\* its expires_at is defined and not before the current time, also right
\* after a refresh, whatever the response was
C15_ProceedsOnlyUnexpired ==
  ProceedsOnPrincipal
    => /\ resp.principal.expires_at # Undef
       /\ Now <= resp.principal.expires_at

\* C15, amended: when the check proceeds without a refresh, expires_at is
\* defined and not before the current time; when it proceeds after a
\* refresh, expires_at is the exp claim of the response as it came, in the
\* past or undefined included
C15_ProceedsOnExpiry ==
  ProceedsOnPrincipal
    => /\ ~Refreshed => /\ resp.principal.expires_at # Undef
                        /\ Now <= resp.principal.expires_at
       /\ Refreshed => resp.principal.expires_at =
                         IF resp.tokens.claims.present
                         THEN resp.tokens.claims.exp ELSE Undef

C15_Witness ==
  /\ ProceedsOnPrincipal /\ Refreshed
  /\ resp.tokens.claims.present
  /\ Stale(resp.principal)

\* C16: a refresh that fails, and a check that ends because the
\* configuration is not to be had, write nothing: the store and the cookie
\* stay as they are, and the stored session, if no logout has destroyed it
\* meanwhile, still holds the principal the request has read
C16_FailedRefreshKeepsSession ==
  /\ [][\A r \in Reqs :
          (AwaitsRefresh(r) /\ ~AwaitsRefresh(r)' /\ phase' = phase /\ ~Refreshed')
            => /\ store' = store /\ cookie' = cookie
               /\ store[req[r].sid].exists
                    => store'[req[r].sid] = req[r].sess]_vars
  /\ [][(resp'.kind = "auth" /\ resp'.status = "401" /\ resp'.nRef = 0)
          => UNCHANGED <<store, cookie>>]_vars

\* after the failed refresh the next check on the session finds the same
\* expired principal and would ask for a refresh again
C16_Witness ==
  /\ resp.kind = "auth" /\ resp.status = "401" /\ resp.nRef = 1
  /\ isAuthenticatedSync(Seen) = "refresh"
  /\ Seen.passport.claims.present

\* C17: a POST /api/login that answers 400, 401 or 500 writes nothing: the
\* store and the cookie stay as they are, so a demo payload or a principal
\* the session held is still there, and the answer carries no user
C17_FailedLoginKeepsSession ==
  [][(resp'.kind = "postLogin" /\ resp'.status # "200")
       => /\ resp'.status \in {"400", "401", "500"}
          /\ store' = store /\ cookie' = cookie
          /\ resp'.user = NoUser
          /\ resp'.principal = NoPrincipal /\ resp'.tokens = NoTokens]_vars

C17_Witness ==
  /\ resp.kind = "postLogin" /\ resp.status \in {"401", "500"}
  /\ HasSession
  /\ store[cookie].user = "alice"
  /\ store[cookie].passport.present
  /\ resp.email = "bob@x"

\* the stored session s holds a payload: GET /api/auth/user on it answers
\* 200, and the authentication check has something to proceed on
Accepted(s) == CurrentUser(store[s]).status = "200"

\* C18: no session is accepted at the start, and a session that is not
\* accepted (none was created by a login, or a logout or a destruction has
\* completed since) becomes accepted only by a login that succeeds
C18_AcceptedOnlyAfterLogin ==
  /\ [](phase = "start" /\ clock = 1000 /\ cookie = NoSid
          => \A s \in Sids : ~Accepted(s))
  /\ [][\A s \in Sids :
          (~Accepted(s) /\ Accepted(s)') => LoginSucceeds]_vars

\* the strategies passport selects for a request to hostname host
Selected(host) == {s \in strategies : s.name = <<"replitauth", host>>}

\* one strategy for each domain of the list, under the name and with the
\* callback URL of that domain, and none else
OnePerDomain ==
  /\ \A d \in Domains :
       Selected(d) = {[name |-> <<"replitauth", d>>,
                       callbackURL |-> <<"https://", d, "/api/callback">>]}
  /\ \A s1, s2 \in strategies : s1.name = s2.name => s1 = s2
  /\ Cardinality(strategies) = Cardinality(Domains)
  /\ \A h \in Hostnames \ Domains : Selected(h) = {}

\* C19: a setup in which discovery resolves registers one strategy for each
\* domain of the list, named after the domain and with its callback URL,
\* distinct domains under distinct names; they stay while the process runs,
\* and GET /api/login and GET /api/callback go ahead exactly for the
\* hostnames that select one, which is that of the hostname
C19_StrategyPerDomain ==
  /\ [](strategies # {} => OnePerDomain)
  /\ [][(phase = "start" /\ phase' = "up"
           /\ isReplitEnvironment /\ cache'.state = "resolved")
            => OnePerDomain']_vars
  /\ [][phase = "up" /\ phase' = "up" => strategies' = strategies]_vars
  /\ [](\A h \in Hostnames : Registered(h) <=> Selected(h) # {})
  /\ [](resp.kind = "getLogin" /\ resp.status = "302" => OnePerDomain)
  /\ [](\A r \in Reqs : req[r].kind = "getCallback" => OnePerDomain)

C19_Witness ==
  /\ resp.kind = "getLogin" /\ resp.status = "302"
  /\ OnePerDomain
  /\ Cardinality(strategies) = 2

\* less than an hour has passed since the last discovery of this process
InWindow == cache.state # "empty" /\ clock - cache.at < 3600 * 1000

\* the step calls getOidcConfig: setupAuth with the marker, the start of
\* GET /api/logout, the authentication check on its way to a refresh
CallsGetOidcConfig ==
  \/ phase = "start" /\ phase' = "up" /\ isReplitEnvironment
  \/ \E r \in Reqs : req[r].kind # "getLogout" /\ req'[r].kind = "getLogout"
  \/ /\ phase = "up" /\ phase' = "up"
     /\ isAuthenticatedSync(LoadSess) = "refresh"
     /\ \/ resp'.kind = "auth" /\ resp'.nRef = 0
        \/ \E r \in Reqs : ~AwaitsRefresh(r) /\ AwaitsRefresh(r)'

\* what the caller of the step makes of a configuration in state cfg
GetsConfig(cfg) ==
  /\ \A r \in Reqs :
       (req[r].kind # "getLogout" /\ req'[r].kind = "getLogout")
         => req'[r].cfg = cfg
  /\ (resp'.kind = "auth" /\ resp'.nRef = 0)
       => resp'.status = "401" /\ cfg = "rejected"
  /\ (\E r \in Reqs : ~AwaitsRefresh(r) /\ AwaitsRefresh(r)')
       => cfg = "resolved"
  /\ (phase = "start" /\ strategies' # {}) => cfg = "resolved"

\* C20: while a process runs, a discovery is made only by a call of
\* getOidcConfig that comes when no discovery was made or an hour or more
\* after the last one; every call within the hour makes none and gets the
\* result of the last one, resolved or rejected; every call outside makes
\* one and gets its result
C20_MemoizedDiscovery ==
  /\ [](cache.state # "empty" => cache.at <= clock)
  /\ [][(cache' # cache /\ phase' # "start")
          => /\ CallsGetOidcConfig /\ ~InWindow
             /\ cache'.at = clock /\ cache'.state \in {"resolved", "rejected"}]_vars
  /\ [][(CallsGetOidcConfig /\ InWindow)
          => cache' = cache /\ GetsConfig(cache.state)]_vars
  /\ [][(CallsGetOidcConfig /\ ~InWindow)
          => /\ cache'.at = clock /\ cache'.state \in {"resolved", "rejected"}
             /\ GetsConfig(cache'.state)]_vars

\* a discovery has failed at setup, the hour has passed, and the call of a
\* request has made a new one, which resolved
C20_Witness ==
  /\ phase = "up" /\ isReplitEnvironment /\ strategies = {}
  /\ cache.state = "resolved"
  /\ cache.at >= 3600 * 1000
  /\ \E r \in Reqs : req[r].kind = "getLogout" /\ req[r].cfg = "resolved"
====
